---- MODULE Spec2Model ----
(***************************************************************************)
(* Transform hierarchy with lazy matrix caching (VectorMaths).             *)
(*                                                                         *)
(* Numbers are exact integers: the inputs are drawn from sets on which     *)
(* every value the code computes is an integer, so that the float          *)
(* arithmetic of the source is modelled by exact arithmetic.               *)
(* Matrices are functions over 0..15 (Mat4) and 0..8 (Mat3), column-major, *)
(* with the indices of the source.                                         *)
(***************************************************************************)
EXTENDS Integers, Sequences, FiniteSets, TLC

\* ------------------------------------------------------------------ bounds
MaxChildren == 2      \* longest child list the model builds
MaxCoord == 1         \* |coordinate| of a position reachable by Translate
MaxCalls == 3         \* calls in one run of the whole interface
MaxLinkCalls == 6     \* calls in one run of AddChild, RemoveChild and the queries

\* ------------------------------------------------------------------ nodes
Nodes == {1, 2, 3}
None == 0             \* nullptr

\* ---------------------------------------------------------------- Vector
Vec3(a, b, c) == [x |-> a, y |-> b, z |-> c]

Vec3Add(a, b) == Vec3(a.x + b.x, a.y + b.y, a.z + b.z)

Vec3Sub(a, b) == Vec3(a.x - b.x, a.y - b.y, a.z - b.z)

Vec3cross(a, o) ==
    Vec3((a.y * o.z) - (a.z * o.y),
         (a.z * o.x) - (a.x * o.z),
         (a.x * o.y) - (a.y * o.x))

Abs(n) == IF n < 0 THEN -n ELSE n

IsSquare(n) == n >= 0 /\ \E r \in 0..n : r * r = n

Sqrt(n) == CHOOSE r \in 0..n : r * r = n

Vec3lengthSq(v) == (v.x * v.x) + (v.y * v.y) + (v.z * v.z)

\* normalised() has an integer result when the length is an integer that
\* divides every component (or the vector is zero)
Vec3Exact(v) ==
    /\ IsSquare(Vec3lengthSq(v))
    /\ LET magnitude == Sqrt(Vec3lengthSq(v))
       IN  magnitude # 0 =>
             /\ v.x % magnitude = 0
             /\ v.y % magnitude = 0
             /\ v.z % magnitude = 0

Quot(a, b) == IF a < 0 THEN -((-a) \div b) ELSE a \div b

Vec3normalised(v) ==
    LET magnitude == Sqrt(Vec3lengthSq(v))
    IN  IF magnitude = 0
        THEN Vec3(0, 0, 0)
        ELSE Vec3(Quot(v.x, magnitude), Quot(v.y, magnitude), Quot(v.z, magnitude))

\* ------------------------------------------------------------ Quaternion
Quat(a, b, c, d) == [w |-> a, x |-> b, y |-> c, z |-> d]

QuatIdentity == Quat(1, 0, 0, 0)

\* this * q
QuatMul(this, q) ==
    LET t0 == (q.w * this.w) - (q.x * this.x) - (q.y * this.y) - (q.z * this.z)
        t1 == (q.w * this.x) + (q.x * this.w) + (q.y * this.z) - (q.z * this.y)
        t2 == (q.w * this.y) - (q.x * this.z) + (q.y * this.w) + (q.z * this.x)
        t3 == (q.w * this.z) + (q.x * this.y) - (q.y * this.x) + (q.z * this.w)
    IN  Quat(t0, t1, t2, t3)

QuatlengthSq(q) == (q.w * q.w) + (q.x * q.x) + (q.y * q.y) + (q.z * q.z)

QuatExact(q) ==
    /\ IsSquare(QuatlengthSq(q))
    /\ LET magnitude == Sqrt(QuatlengthSq(q))
       IN  magnitude # 0 =>
             /\ q.w % magnitude = 0
             /\ q.x % magnitude = 0
             /\ q.y % magnitude = 0
             /\ q.z % magnitude = 0

Quatnormalised(q) ==
    LET magnitude == Sqrt(QuatlengthSq(q))
    IN  IF magnitude = 0
        THEN Quat(1, 0, 0, 0)
        ELSE Quat(Quot(q.w, magnitude), Quot(q.x, magnitude),
                  Quot(q.y, magnitude), Quot(q.z, magnitude))

conjugate(q) == Quat(q.w, -q.x, -q.y, -q.z)

\* Fractions.  A quaternion or a vector whose components are not integers
\* is kept as integer numerators over one positive denominator: Frac(q, den)
\* is the quaternion q.w/den, q.x/den, q.y/den, q.z/den and FracVec(v, den)
\* the vector v.x/den, v.y/den, v.z/den.
Frac(q, d) == [q |-> q, den |-> d]

FracVec(v, d) == [v |-> v, den |-> d]

\* the two fractions are the same vector
FracVecEq(a, b) ==
    /\ a.v.x * b.den = b.v.x * a.den
    /\ a.v.y * b.den = b.v.y * a.den
    /\ a.v.z * b.den = b.v.z * a.den

\* this * q on fractions: every component of the product is a sum of
\* products of one component of each operand, so the numerators are
\* multiplied as operator* does and the denominators multiply
FracMul(this, q) == Frac(QuatMul(this.q, q.q), this.den * q.den)

\* normalised() on fractions: the magnitude is Sqrt(lengthSq(q)) / den, so
\* the components divided by it are q / Sqrt(lengthSq(q))
Fracnormalised(a) ==
    LET magnitude == Sqrt(QuatlengthSq(a.q))
    IN  IF magnitude = 0
        THEN Frac(Quat(1, 0, 0, 0), 1)
        ELSE Frac(a.q, magnitude)

\* normalised() is computed without rounding
FracExact(a) == IsSquare(QuatlengthSq(a.q))

\* mutant: the quaternion is not conjugated on the left
rotateVectorNoConjugate(a, v) ==
    LET unit_quat == Fracnormalised(a)
        vectorQ == Frac(Quat(0, v.v.x, v.v.y, v.v.z), v.den)
        result == FracMul(FracMul(unit_quat, vectorQ), unit_quat)
    IN  FracVec(Vec3(result.q.x, result.q.y, result.q.z), result.den)

rotateVector(a, v) ==
    LET unit_quat == Fracnormalised(a)
        vectorQ == Frac(Quat(0, v.v.x, v.v.y, v.v.z), v.den)
        result == FracMul(FracMul(Frac(conjugate(unit_quat.q), unit_quat.den), vectorQ),
                          unit_quat)
    IN  FracVec(Vec3(result.q.x, result.q.y, result.q.z), result.den)

\* ---------------------------------------------------------------- Matrix
Mat4Identity == [i \in 0..15 |-> IF i \in {0, 5, 10, 15} THEN 1 ELSE 0]

\* the product with both operands already evaluated
Mat4Product(a, other) ==
    [k \in 0..15 |->
        LET j == k \div 4
            i == k % 4
        IN  (a[i] * other[j * 4]) + (a[i + 4] * other[j * 4 + 1])
            + (a[i + 8] * other[j * 4 + 2]) + (a[i + 12] * other[j * 4 + 3])]

\* a * other; each operand is evaluated once, as a C++ argument is
Mat4Mul(a, other) ==
    CHOOSE result \in {Mat4Product(x, y) : x \in {a}, y \in {other}} : TRUE

Vec4(a, b, c, d) == [x |-> a, y |-> b, z |-> c, w |-> d]

Vec4dot(a, o) == (a.x * o.x) + (a.y * o.y) + (a.z * o.z) + (a.w * o.w)

\* this * other, for a Vec4 other
Mat4MulVec4(this, other) ==
    Vec4(Vec4dot(Vec4(this[0], this[4], this[8], this[12]), other),
         Vec4dot(Vec4(this[1], this[5], this[9], this[13]), other),
         Vec4dot(Vec4(this[2], this[6], this[10], this[14]), other),
         Vec4dot(Vec4(this[3], this[7], this[11], this[15]), other))

\* at() throws std::out_of_range and returns no value
OutOfRange == [threw |-> TRUE]

Returned(x) == [threw |-> FALSE, value |-> x]

Mat3at(this, row, col) ==
    IF row < 0 \/ row >= 3 \/ col < 0 \/ col >= 3
    THEN OutOfRange
    ELSE Returned(this[(col * 3) + row])

\* mutant: the element is read row-major
Mat4atRowMajor(this, row, col) ==
    IF row < 0 \/ row >= 4 \/ col < 0 \/ col >= 4
    THEN OutOfRange
    ELSE Returned(this[(row * 4) + col])

Mat4at(this, row, col) ==
    IF row < 0 \/ row >= 4 \/ col < 0 \/ col >= 4
    THEN OutOfRange
    ELSE Returned(this[(col * 4) + row])

Mat3determinant(matrix) ==
    LET a == matrix[0] * ((matrix[4] * matrix[8]) - (matrix[5] * matrix[7]))
        b == matrix[3] * ((matrix[1] * matrix[8]) - (matrix[2] * matrix[7]))
        c == matrix[6] * ((matrix[1] * matrix[5]) - (matrix[2] * matrix[4]))
    IN  (a - b) + c

\* the k-th index of 0..3 that the loop does not skip
Skip(k, skipped) == IF k < skipped THEN k ELSE k + 1

calculate_minor_determinant(matrix, row, column) ==
    LET submatrix == [index \in 0..8 |->
                        matrix[(Skip(index \div 3, column) * 4) + Skip(index % 3, row)]]
    IN  Mat3determinant(submatrix)

Mat4determinant(matrix) ==
    (matrix[0] * calculate_minor_determinant(matrix, 0, 0))
    - (matrix[4] * calculate_minor_determinant(matrix, 0, 1))
    + (matrix[8] * calculate_minor_determinant(matrix, 0, 2))
    - (matrix[12] * calculate_minor_determinant(matrix, 0, 3))

\* inverse(), for a determinant d with 1/d an integer (d is -1, 0 or 1)
Mat4inverse(this) ==
    LET determinant == Mat4determinant(this)
    IN  IF determinant = 0
        THEN Mat4Identity
        ELSE [k \in 0..15 |->
                LET c == k \div 4
                    r == k % 4
                    sign == IF (r + c) % 2 = 0 THEN 1 ELSE -1
                    val == sign * calculate_minor_determinant(this, r, c)
                IN  val * Quot(1, determinant)]

Mat4translation(this, t) ==
    [this EXCEPT ![12] = @ + t.x, ![13] = @ + t.y, ![14] = @ + t.z]

Mat4scale(this, s) ==
    LET scalingMatrix ==
            [i \in 0..15 |->
                CASE i = 0 -> s.x
                  [] i = 5 -> s.y
                  [] i = 10 -> s.z
                  [] i = 15 -> 1
                  [] OTHER -> 0]
    IN  Mat4Mul(this, scalingMatrix)

toRotationMatrix(q) ==
    LET w == q.w
        x == q.x
        y == q.y
        z == q.z
    IN  [i \in 0..15 |->
            CASE i = 0 -> (2 * ((w * w) + (x * x))) - 1
              [] i = 1 -> 2 * ((x * y) + (w * z))
              [] i = 2 -> 2 * ((x * z) - (w * y))
              [] i = 4 -> 2 * ((x * y) - (w * z))
              [] i = 5 -> (2 * ((w * w) + (y * y))) - 1
              [] i = 6 -> 2 * ((y * z) + (w * x))
              [] i = 8 -> 2 * ((x * z) + (w * y))
              [] i = 9 -> (2 * (y * z)) - (w * x)
              [] i = 10 -> (2 * ((w * w) + (z * z))) - 1
              [] i = 15 -> 1
              [] OTHER -> 0]

\* toRotationMatrix on a fraction a.q / a.den: every product of two
\* components has the denominator a.den * a.den, and the constant 1 is
\* a.den * a.den over that denominator
FractoRotationMatrix(a) ==
    LET w == a.q.w
        x == a.q.x
        y == a.q.y
        z == a.q.z
        one == a.den * a.den
    IN  [m |-> [i \in 0..15 |->
                  CASE i = 0 -> (2 * ((w * w) + (x * x))) - one
                    [] i = 1 -> 2 * ((x * y) + (w * z))
                    [] i = 2 -> 2 * ((x * z) - (w * y))
                    [] i = 4 -> 2 * ((x * y) - (w * z))
                    [] i = 5 -> (2 * ((w * w) + (y * y))) - one
                    [] i = 6 -> 2 * ((y * z) + (w * x))
                    [] i = 8 -> 2 * ((x * z) + (w * y))
                    [] i = 9 -> (2 * (y * z)) - (w * x)
                    [] i = 10 -> (2 * ((w * w) + (z * z))) - one
                    [] i = 15 -> one
                    [] OTHER -> 0],
         den |-> a.den * a.den]

Mat4lookAt(eye, target, up) ==
    LET forward == Vec3normalised(Vec3Sub(eye, target))
        right == Vec3normalised(Vec3cross(up, forward))
        newUp == Vec3cross(forward, right)
        viewMatrix ==
            [i \in 0..15 |->
                CASE i = 0 -> right.x
                  [] i = 1 -> newUp.x
                  [] i = 2 -> forward.x
                  [] i = 4 -> right.y
                  [] i = 5 -> newUp.y
                  [] i = 6 -> forward.y
                  [] i = 8 -> right.z
                  [] i = 9 -> newUp.z
                  [] i = 10 -> forward.z
                  [] i = 15 -> 1
                  [] OTHER -> 0]
    IN  Mat4translation(viewMatrix, Vec3(-eye.x, -eye.y, -eye.z))

\* both normalised() calls of lookAt are computed without rounding, on
\* vectors that are not zero
Mat4lookAtExact(eye, target, up) ==
    /\ Vec3Sub(eye, target) # Vec3(0, 0, 0)
    /\ Vec3Exact(Vec3Sub(eye, target))
    /\ Vec3cross(up, Vec3normalised(Vec3Sub(eye, target))) # Vec3(0, 0, 0)
    /\ Vec3Exact(Vec3cross(up, Vec3normalised(Vec3Sub(eye, target))))

\* fromRotationMatrix divides three differences by 4*sqrt(S) and then
\* normalises.  Multiplying all four components by the positive number
\* 4*sqrt(S) does not change the normalised result, so the components are
\* kept here as the integers 4*S, (difference), ... ; S <= 0 (a NaN or a
\* division by zero in the source) is reported in the field ok.
fromRotationMatrixRaw(m) ==
    LET trace == m[0] + m[4] + m[8]
    IN  IF trace > 0
        THEN [ok |-> TRUE,
              q |-> Quat(2 * (trace + 1), m[5] - m[7], m[6] - m[2], m[1] - m[3])]
        ELSE IF (m[0] > m[4]) /\ (m[0] > m[8])
        THEN [ok |-> 1 + (m[0] - m[4] - m[8]) > 0,
              q |-> Quat(m[5] - m[7], 2 * (1 + (m[0] - m[4] - m[8])),
                         m[3] + m[1], m[6] + m[2])]
        ELSE IF m[4] > m[8]
        THEN [ok |-> 1 + (m[4] - m[0] - m[8]) > 0,
              q |-> Quat(m[6] - m[2], m[3] + m[1],
                         2 * (1 + (m[4] - m[0] - m[8])), m[7] + m[5])]
        ELSE [ok |-> 1 + (m[8] - m[0] - m[4]) > 0,
              q |-> Quat(m[1] - m[3], m[6] + m[2], m[7] + m[5],
                         2 * (1 + (m[8] - m[0] - m[4])))]

fromRotationMatrix(m) == Quatnormalised(fromRotationMatrixRaw(m).q)

\* ------------------------------------------------------------- Collision
Vec3dot(a, o) == (a.x * o.x) + (a.y * o.y) + (a.z * o.z)

Vec3Scale(a, scalar) == Vec3(a.x * scalar, a.y * scalar, a.z * scalar)

\* The floats of rayIntersectsAABB: a number, or what a division by zero
\* gives, an infinity (v is its sign) or NaN.
Num(n) == [kind |-> "num", v |-> n]

PosInf == [kind |-> "inf", v |-> 1]

NegInf == [kind |-> "inf", v |-> -1]

NaN == [kind |-> "nan", v |-> 0]

\* a / b for numbers a and b, b dividing a when it is not 0
FloatDiv(a, b) ==
    IF b # 0
    THEN Num(IF b < 0 THEN Quot(-a, -b) ELSE Quot(a, b))
    ELSE IF a > 0 THEN PosInf
    ELSE IF a < 0 THEN NegInf
    ELSE NaN

\* a < b; every comparison with NaN is false
FloatLess(a, b) ==
    IF a.kind = "nan" \/ b.kind = "nan"
    THEN FALSE
    ELSE IF a.kind = "inf"
    THEN a.v < 0 /\ ~(b.kind = "inf" /\ b.v < 0)
    ELSE IF b.kind = "inf"
    THEN b.v > 0
    ELSE a.v < b.v

\* a >= b
FloatGeq(a, b) == a.kind # "nan" /\ b.kind # "nan" /\ ~FloatLess(a, b)

\* std::max(a, b) is (a < b) ? b : a
stdmax(a, b) == IF FloatLess(a, b) THEN b ELSE a

\* std::min(a, b) is (b < a) ? b : a
stdmin(a, b) == IF FloatLess(b, a) THEN b ELSE a

\* Ray(origin, direction) normalises the direction
Ray(origin, direction) == [origin |-> origin, direction |-> Vec3normalised(direction)]

AABB(min, max) == [min |-> min, max |-> max]

Sphere(center, radius) == [center |-> center, radius |-> radius]

\* a function that returns false leaves distance as it was
Miss == [hit |-> FALSE]

Hit(distance) == [hit |-> TRUE, distance |-> distance]

rayIntersectsAABB(ray, box) ==
    LET tMinX0 == FloatDiv(box.min.x - ray.origin.x, ray.direction.x)
        tMaxX0 == FloatDiv(box.max.x - ray.origin.x, ray.direction.x)
        tMinY0 == FloatDiv(box.min.y - ray.origin.x, ray.direction.y)
        tMaxY0 == FloatDiv(box.max.y - ray.origin.x, ray.direction.y)
        tMinZ0 == FloatDiv(box.min.z - ray.origin.x, ray.direction.z)
        tMaxZ0 == FloatDiv(box.max.z - ray.origin.x, ray.direction.z)
        \* std::swap when the direction is negative
        tMinX == IF ray.direction.x < 0 THEN tMaxX0 ELSE tMinX0
        tMaxX == IF ray.direction.x < 0 THEN tMinX0 ELSE tMaxX0
        tMinY == IF ray.direction.y < 0 THEN tMaxY0 ELSE tMinY0
        tMaxY == IF ray.direction.y < 0 THEN tMinY0 ELSE tMaxY0
        tMinZ == IF ray.direction.z < 0 THEN tMaxZ0 ELSE tMinZ0
        tMaxZ == IF ray.direction.z < 0 THEN tMinZ0 ELSE tMaxZ0
        tMin == stdmax(stdmax(tMinX, tMinY), tMinZ)
        tMax == stdmin(stdmin(tMaxX, tMaxY), tMaxZ)
    IN  IF FloatLess(tMax, tMin) THEN Miss
        ELSE IF FloatLess(tMax, Num(0)) THEN Miss
        ELSE Hit(IF FloatGeq(tMin, Num(0)) THEN tMin ELSE tMax)

\* the two square roots of rayIntersectsSphere are computed without rounding
rayIntersectsSphereExact(ray, sphere) ==
    LET raySphereDot == Vec3dot(Vec3Sub(sphere.center, ray.origin), ray.direction)
        p == Vec3Add(ray.origin, Vec3Scale(ray.direction, raySphereDot))
        dSq == Vec3lengthSq(Vec3Sub(p, sphere.center))
    IN  /\ IsSquare(dSq)
        /\ dSq <= sphere.radius * sphere.radius
              => IsSquare((sphere.radius * sphere.radius) - dSq)

rayIntersectsSphere(ray, sphere) ==
    LET raySphereDot == Vec3dot(Vec3Sub(sphere.center, ray.origin), ray.direction)
        p == Vec3Add(ray.origin, Vec3Scale(ray.direction, raySphereDot))
        d == Sqrt(Vec3lengthSq(Vec3Sub(p, sphere.center)))
    IN  IF raySphereDot < 0 THEN Miss
        ELSE IF d > sphere.radius THEN Miss
        ELSE LET offset == Sqrt((sphere.radius * sphere.radius) - (d * d))
                 t1 == raySphereDot - offset
                 t2 == raySphereDot + offset
             IN  IF t1 < 0
                 THEN IF t2 < 0 THEN Miss ELSE Hit(t2)
                 ELSE Hit(t1)

\* -------------------------------------------- inputs of the maths classes
MaxRay == 3           \* |coordinate| of the origin of a ray

\* the origins of the rays, with the one of the library's test
OriginInputs ==
    {Vec3(x, y, z) : x \in {-MaxRay, 0, MaxRay}, y \in {-MaxRay, 0, MaxRay},
                     z \in {-MaxRay, 0, MaxRay}}
    \cup {Vec3(0, 0, -10)}

\* the directions along the axes, not normalised
DirectionInputs ==
    {Vec3(2, 0, 0), Vec3(-2, 0, 0), Vec3(0, 1, 0), Vec3(0, -1, 0),
     Vec3(0, 0, 1), Vec3(0, 0, -1)}

BoxInputs == {AABB(Vec3(-1, -1, -1), Vec3(1, 1, 1)), AABB(Vec3(-1, -1, 2), Vec3(1, 1, 4))}

SphereInputs == {Sphere(Vec3(0, 0, 0), 5), Sphere(Vec3(0, 3, 0), 5)}

MaxEye == 2           \* |coordinate| of the eye of lookAt

EyeInputs ==
    {Vec3(x, y, z) : x \in -MaxEye..MaxEye, y \in -MaxEye..MaxEye, z \in -MaxEye..MaxEye}

LookAtTargetInputs == {Vec3(0, 0, 0), Vec3(1, 1, 0)}

LookAtUpInputs == {Vec3(0, 1, 0), Vec3(0, 0, 1)}

MaxDen == 2           \* largest denominator of a component of a unit quaternion

\* the quaternions of length 1 with components k/d, d up to MaxDen
UnitQuats ==
    {Frac(Quat(w, x, y, z), d) :
        <<d, w, x, y, z>> \in
            {t \in (1..MaxDen) \X (-MaxDen..MaxDen) \X (-MaxDen..MaxDen)
                       \X (-MaxDen..MaxDen) \X (-MaxDen..MaxDen) :
                (t[2] * t[2]) + (t[3] * t[3]) + (t[4] * t[4]) + (t[5] * t[5])
                    = t[1] * t[1]}}

VectorInputs ==
    {FracVec(v, 1) : v \in {Vec3(0, 0, -1), Vec3(1, 2, 3)}}

\* ------------------------------------------------------------- Transform
VARIABLES
    position,      \* Vec3 of each node
    rotation,      \* Quaternion of each node
    scale,         \* Vec3 of each node
    parent,        \* parent pointer of each node, None for nullptr
    children,      \* child list of each node, a sequence of nodes
    localMatrix,   \* cached local matrix of each node
    worldMatrix,   \* cached world matrix of each node
    dirty,         \* dirty flag of each node
    pc,            \* "ready", or "diverged" once a call recurses for ever
    lastOp,        \* the call that produced this state
    ret,           \* the matrix returned by the last matrix query
    direct,        \* TRUE once SetParent has been called directly
    budget,        \* calls the run may still make
    calc           \* the last call of a function of the maths classes

vars == <<position, rotation, scale, parent, children, localMatrix,
          worldMatrix, dirty, pc, lastOp, ret, direct, budget, calc>>

\* no function of the maths classes has been called
NoCalc == [fn |-> "none"]

\* lastOp: the call, its receiver and argument; again says that the call
\* before was the same query on the same node; pre is the receiver's child
\* list before an AddChild or a RemoveChild
Op(o, n, a) == [op |-> o, node |-> n, arg |-> a, again |-> FALSE, pre |-> << >>]

\* inputs of the calls
PositionInputs == {Vec3(1, 0, 0)}
TranslateInputs == {Vec3(0, 1, 0)}
RotationInputs == {Quat(0, 0, 1, 0)}
RotateInputs == {Quat(0, 1, 0, 0)}
ScaleInputs == {Vec3(2, 1, 1)}
TargetInputs == {Vec3(0, 0, 1)}
UpInputs == {Vec3(0, 1, 0)}

InRange(v) == Abs(v.x) <= MaxCoord /\ Abs(v.y) <= MaxCoord /\ Abs(v.z) <= MaxCoord

\* Transform::Transform()
Init ==
    /\ position = [n \in Nodes |-> Vec3(0, 0, 0)]
    /\ rotation = [n \in Nodes |-> QuatIdentity]
    /\ scale = [n \in Nodes |-> Vec3(1, 1, 1)]
    /\ parent = [n \in Nodes |-> None]
    /\ children = [n \in Nodes |-> << >>]
    /\ localMatrix = [n \in Nodes |-> Mat4Identity]
    /\ worldMatrix = [n \in Nodes |-> Mat4Identity]
    /\ dirty = [n \in Nodes |-> TRUE]
    /\ pc = "ready"
    /\ lastOp = Op("Transform", None, None)
    /\ ret = Mat4Identity
    /\ direct = FALSE
    /\ budget = MaxLinkCalls
    /\ calc = NoCalc

\* a call can be made: no earlier call is still recursing
Callable ==
    /\ pc = "ready"
    /\ budget > 0
    /\ budget' = budget - 1
    /\ UNCHANGED calc

\* MarkDirty on node n with child lists ch, as a depth-first walk; stack is
\* the set of nodes whose MarkDirty call is still active.  Entering a node
\* that is on the stack repeats the same calls for ever: div becomes TRUE and
\* the walk goes no further.
RECURSIVE MarkDirtyRec(_, _, _, _), MarkDirtyLoop(_, _, _, _, _)
\* mutant: MarkDirty sets the flag of every node
MarkDirtyRecEveryNode(ch, r, n, stack) == [r EXCEPT !.d = [m \in Nodes |-> TRUE]]

\* mutant: MarkDirty returns when it meets a node it is already visiting
MarkDirtyRecGuarded(ch, r, n, stack) ==
    IF n \in stack
    THEN r
    ELSE MarkDirtyLoop(ch, [r EXCEPT !.d[n] = TRUE], n, stack \cup {n}, 1)

\* mutant: MarkDirty sets the flag of its own node only
MarkDirtyRecSelfOnly(ch, r, n, stack) == [r EXCEPT !.d[n] = TRUE]

MarkDirtyRec(ch, r, n, stack) ==
    IF n \in stack
    THEN [r EXCEPT !.div = TRUE]
    ELSE MarkDirtyLoop(ch, [r EXCEPT !.d[n] = TRUE], n, stack \cup {n}, 1)
MarkDirtyLoop(ch, r0, n, stack, i) ==
    CHOOSE out \in
        { IF r.div \/ i > Len(ch[n])
          THEN r
          ELSE MarkDirtyLoop(ch, MarkDirtyRec(ch, r, ch[n][i], stack), n, stack, i + 1)
          : r \in {r0} } : TRUE

MarkDirty(ch, n) == MarkDirtyRec(ch, [d |-> dirty, div |-> FALSE], n, {})

\* mutant: the scale applied after the translation
GetLocalMatrixValueScaleLast(d, lm, n) ==
    IF d[n]
    THEN LET scaleMat == Mat4scale(Mat4Identity, scale[n])
             rotateMat == toRotationMatrix(rotation[n])
         IN  Mat4Mul(scaleMat, Mat4translation(rotateMat, position[n]))
    ELSE lm[n]

\* mutant: the test of the dirty flag inverted
GetLocalMatrixValueInverted(d, lm, n) ==
    IF ~d[n]
    THEN LET scaleMat == Mat4scale(Mat4Identity, scale[n])
             rotateMat == toRotationMatrix(rotation[n])
         IN  Mat4translation(Mat4Mul(rotateMat, scaleMat), position[n])
    ELSE lm[n]

\* the value GetLocalMatrix leaves in localMatrix[n] and returns, given the
\* dirty flags d and cached matrices lm
GetLocalMatrixValue(d, lm, n) ==
    IF d[n]
    THEN LET scaleMat == Mat4scale(Mat4Identity, scale[n])
             rotateMat == toRotationMatrix(rotation[n])
         IN  Mat4translation(Mat4Mul(rotateMat, scaleMat), position[n])
    ELSE lm[n]

\* The nodes GetWorldMatrix(n) is called on: n, then its parent, and so on;
\* stack is the set of nodes whose call is still active.
RECURSIVE ChainRec(_, _)
ChainRec(n, stack) ==
    IF n \in stack \/ parent[n] = None
    THEN stack \cup {n}
    ELSE ChainRec(parent[n], stack \cup {n})

Chain(n) == ChainRec(n, {})

\* Meeting a node whose call is still active is a recursion without end.
RECURSIVE GetWorldMatrixDiverges(_, _)
\* mutant: GetWorldMatrix never comes back from a parent
GetWorldMatrixDivergesBelowRoot(n, stack) == parent[n] # None

GetWorldMatrixDiverges(n, stack) ==
    IF n \in stack
    THEN TRUE
    ELSE IF parent[n] = None
    THEN FALSE
    ELSE GetWorldMatrixDiverges(parent[n], stack \cup {n})

\* how often GetWorldMatrix(n) evaluates GetLocalMatrix on each node, added
\* to count, on a parent chain that ends
RECURSIVE GetLocalMatrixCalls(_, _)
GetLocalMatrixCalls(n, count) ==
    IF parent[n] # None
    THEN GetLocalMatrixCalls(parent[n], [count EXCEPT ![n] = @ + 1])
    ELSE [count EXCEPT ![n] = @ + 1]

\* the value GetWorldMatrix(n) returns and leaves in worldMatrix[n] when the
\* recursion ends: every node of the chain is a different object, so each
\* GetLocalMatrix on the way sees the flags and caches of the state before
RECURSIVE GetWorldMatrixValue(_)
\* mutant: the child's local matrix on the left of the parent's world matrix
GetWorldMatrixValueChildLeft(n) ==
    IF parent[n] # None
    THEN Mat4Mul(GetLocalMatrixValue(dirty, localMatrix, n),
                 GetWorldMatrixValue(parent[n]))
    ELSE GetLocalMatrixValue(dirty, localMatrix, n)

GetWorldMatrixValue(n) ==
    IF parent[n] # None
    THEN Mat4Mul(GetWorldMatrixValue(parent[n]),
                 GetLocalMatrixValue(dirty, localMatrix, n))
    ELSE GetLocalMatrixValue(dirty, localMatrix, n)

Range(seq) == {seq[i] : i \in 1..Len(seq)}

\* mutant: std::remove without the erase, the tail of the list stays
RemoveAllNoErase(seq, c) ==
    SelectSeq(seq, LAMBDA e : e # c)
        \o SubSeq(seq, Len(SelectSeq(seq, LAMBDA e : e # c)) + 1, Len(seq))

\* mutant: only the first occurrence is erased
RemoveFirst(seq, c) ==
    IF \E i \in 1..Len(seq) : seq[i] = c
    THEN LET k == CHOOSE i \in 1..Len(seq) :
                      seq[i] = c /\ \A j \in 1..(i - 1) : seq[j] # c
         IN  SubSeq(seq, 1, k - 1) \o SubSeq(seq, k + 1, Len(seq))
    ELSE seq

\* std::remove + erase: every occurrence of c goes, the rest keeps its order
RemoveAll(seq, c) == SelectSeq(seq, LAMBDA e : e # c)

\* mutant: the test it != children.end() left out
FoundAlways(seq, c) == TRUE

\* it != children.end(): std::remove found the child
Found(seq, c) == c \in Range(seq)

\* the tail of every mutator: MarkDirty() on n with child lists ch
MarkDirtyCall(ch, n) ==
    LET r == MarkDirty(ch, n)
    IN  /\ dirty' = r.d
        /\ pc' = IF r.div THEN "diverged" ELSE "ready"

\* mutant: GetLocalMatrix clears the flag of every node
GetLocalMatrixClearsAll(n) ==
    /\ Callable
    /\ LET m == GetLocalMatrixValue(dirty, localMatrix, n)
       IN  /\ localMatrix' = [localMatrix EXCEPT ![n] = m]
           /\ ret' = m
    /\ dirty' = [m \in Nodes |-> FALSE]
    /\ lastOp' = [Op("GetLocalMatrix", n, None) EXCEPT
                    !.again = (lastOp.op = "GetLocalMatrix" /\ lastOp.node = n)]
    /\ UNCHANGED <<position, rotation, scale, parent, children, worldMatrix, pc, direct>>

GetLocalMatrix(n) ==
    /\ Callable
    /\ LET m == GetLocalMatrixValue(dirty, localMatrix, n)
       IN  /\ localMatrix' = [localMatrix EXCEPT ![n] = m]
           /\ ret' = m
    /\ dirty' = [dirty EXCEPT ![n] = FALSE]
    /\ lastOp' = [Op("GetLocalMatrix", n, None) EXCEPT
                    !.again = (lastOp.op = "GetLocalMatrix" /\ lastOp.node = n)]
    /\ UNCHANGED <<position, rotation, scale, parent, children, worldMatrix, pc, direct>>

\* In parent->GetWorldMatrix() * GetLocalMatrix() the compiler chooses which
\* operand is evaluated first (localFirst); the choice shows only when the
\* recursion has no end, in the flags GetLocalMatrix cleared on the way.
GetWorldMatrix(n) ==
    /\ Callable
    /\ IF GetWorldMatrixDiverges(n, {})
       THEN /\ pc' = "diverged"
            /\ \E localFirst \in BOOLEAN :
                 IF localFirst
                 THEN /\ dirty' = [m \in Nodes |-> IF m \in Chain(n) THEN FALSE ELSE dirty[m]]
                      /\ localMatrix' =
                            [m \in Nodes |->
                                IF m \in Chain(n)
                                THEN GetLocalMatrixValue(dirty, localMatrix, m)
                                ELSE localMatrix[m]]
                 ELSE UNCHANGED <<dirty, localMatrix>>
            /\ UNCHANGED <<worldMatrix, ret>>
       ELSE /\ pc' = "ready"
            /\ dirty' = [m \in Nodes |-> IF m \in Chain(n) THEN FALSE ELSE dirty[m]]
            /\ localMatrix' =
                  [m \in Nodes |->
                      IF m \in Chain(n)
                      THEN GetLocalMatrixValue(dirty, localMatrix, m)
                      ELSE localMatrix[m]]
            /\ worldMatrix' =
                  [m \in Nodes |->
                      IF m \in Chain(n) THEN GetWorldMatrixValue(m) ELSE worldMatrix[m]]
            /\ ret' = GetWorldMatrixValue(n)
    /\ lastOp' = Op("GetWorldMatrix", n, None)
    /\ UNCHANGED <<position, rotation, scale, parent, children, direct>>

SetPosition(n, newPosition) ==
    /\ Callable
    /\ position' = [position EXCEPT ![n] = newPosition]
    /\ MarkDirtyCall(children, n)
    /\ lastOp' = Op("SetPosition", n, newPosition)
    /\ UNCHANGED <<rotation, scale, parent, children, localMatrix, worldMatrix, ret, direct>>

SetRotation(n, newRotation) ==
    /\ Callable
    /\ rotation' = [rotation EXCEPT ![n] = newRotation]
    /\ MarkDirtyCall(children, n)
    /\ lastOp' = Op("SetRotation", n, newRotation)
    /\ UNCHANGED <<position, scale, parent, children, localMatrix, worldMatrix, ret, direct>>

SetScale(n, newScale) ==
    /\ Callable
    /\ scale' = [scale EXCEPT ![n] = newScale]
    /\ MarkDirtyCall(children, n)
    /\ lastOp' = Op("SetScale", n, newScale)
    /\ UNCHANGED <<position, rotation, parent, children, localMatrix, worldMatrix, ret, direct>>

\* GetPosition, GetRotation, GetScale, GetParent, GetChildren, Forward,
\* Right and Up: const functions that read the fields and write nothing
Getter(n) ==
    /\ Callable
    /\ lastOp' = Op("Getter", n, None)
    /\ UNCHANGED <<position, rotation, scale, parent, children, localMatrix,
                   worldMatrix, dirty, pc, ret, direct>>

\* mutant: SetParent without the MarkDirty call
SetParentBodyNoMark(ch, n, newParent) ==
    /\ parent' = [parent EXCEPT ![n] = newParent]
    /\ UNCHANGED <<dirty, pc>>

\* the body of SetParent, also run by AddChild and RemoveChild
SetParentBody(ch, n, newParent) ==
    /\ parent' = [parent EXCEPT ![n] = newParent]
    /\ MarkDirtyCall(ch, n)

\* mutant: SetParent also appends the node to the new parent's child list
SetParentLinking(n, newParent) ==
    /\ Callable
    /\ children' = IF newParent = None
                   THEN children
                   ELSE [children EXCEPT ![newParent] = Append(@, n)]
    /\ SetParentBody(children', n, newParent)
    /\ direct' = TRUE
    /\ lastOp' = Op("SetParent", n, newParent)
    /\ UNCHANGED <<position, rotation, scale, localMatrix, worldMatrix, ret>>

SetParent(n, newParent) ==
    /\ Callable
    /\ SetParentBody(children, n, newParent)
    /\ direct' = TRUE
    /\ lastOp' = Op("SetParent", n, newParent)
    /\ UNCHANGED <<position, rotation, scale, children, localMatrix, worldMatrix, ret>>

AddChild(p, child) ==
    /\ Callable
    /\ Len(children[p]) < MaxChildren
    /\ children' = [children EXCEPT ![p] = Append(@, child)]
    /\ SetParentBody(children', child, p)
    /\ lastOp' = [Op("AddChild", p, child) EXCEPT !.pre = children[p]]
    /\ UNCHANGED <<position, rotation, scale, localMatrix, worldMatrix, ret, direct>>

\* mutant: RemoveChild erases the child and leaves its parent pointer
RemoveChildKeepsParent(p, child) ==
    /\ Callable
    /\ IF Found(children[p], child)
       THEN children' = [children EXCEPT ![p] = RemoveAll(@, child)]
       ELSE UNCHANGED children
    /\ lastOp' = [Op("RemoveChild", p, child) EXCEPT !.pre = children[p]]
    /\ UNCHANGED <<position, rotation, scale, parent, dirty, pc, localMatrix,
                   worldMatrix, ret, direct>>

RemoveChild(p, child) ==
    /\ Callable
    /\ IF Found(children[p], child)
       THEN /\ children' = [children EXCEPT ![p] = RemoveAll(@, child)]
            /\ IF child # None /\ parent[child] = p
               THEN SetParentBody(children', child, None)
               ELSE UNCHANGED <<parent, dirty, pc>>
       ELSE UNCHANGED <<children, parent, dirty, pc>>
    /\ lastOp' = [Op("RemoveChild", p, child) EXCEPT !.pre = children[p]]
    /\ UNCHANGED <<position, rotation, scale, localMatrix, worldMatrix, ret, direct>>

\* mutant: Translate assigns the translation to the position
TranslateAssign(n, translation) ==
    /\ Callable
    /\ InRange(Vec3Add(position[n], translation))
    /\ position' = [position EXCEPT ![n] = translation]
    /\ MarkDirtyCall(children, n)
    /\ lastOp' = Op("Translate", n, translation)
    /\ UNCHANGED <<rotation, scale, parent, children, localMatrix, worldMatrix, ret, direct>>

Translate(n, translation) ==
    /\ Callable
    /\ InRange(Vec3Add(position[n], translation))
    /\ position' = [position EXCEPT ![n] = Vec3Add(@, translation)]
    /\ MarkDirtyCall(children, n)
    /\ lastOp' = Op("Translate", n, translation)
    /\ UNCHANGED <<rotation, scale, parent, children, localMatrix, worldMatrix, ret, direct>>

Rotate(n, extraRotation) ==
    /\ Callable
    /\ rotation' = [rotation EXCEPT ![n] = QuatMul(@, extraRotation)]
    /\ MarkDirtyCall(children, n)
    /\ lastOp' = Op("Rotate", n, extraRotation)
    /\ UNCHANGED <<position, scale, parent, children, localMatrix, worldMatrix, ret, direct>>

\* the 3x3 matrix LookAt hands to fromRotationMatrix
LookAtMatrix(pos, target, up) ==
    LET direction == Vec3normalised(Vec3Sub(target, pos))
        right == Vec3normalised(Vec3cross(up, direction))
        newUp == Vec3cross(direction, right)
    IN  [i \in 0..8 |->
            CASE i = 0 -> right.x
              [] i = 1 -> newUp.x
              [] i = 2 -> direction.x
              [] i = 3 -> right.y
              [] i = 4 -> newUp.y
              [] i = 5 -> direction.y
              [] i = 6 -> right.z
              [] i = 7 -> newUp.z
              [] i = 8 -> direction.z]

\* the inputs on which every value LookAt computes is an integer
LookAtExact(pos, target, up) ==
    /\ Vec3Exact(Vec3Sub(target, pos))
    /\ Vec3Exact(Vec3cross(up, Vec3normalised(Vec3Sub(target, pos))))
    /\ fromRotationMatrixRaw(LookAtMatrix(pos, target, up)).ok
    /\ QuatExact(fromRotationMatrixRaw(LookAtMatrix(pos, target, up)).q)

LookAt(n, target, up) ==
    /\ Callable
    /\ LookAtExact(position[n], target, up)
    /\ rotation' = [rotation EXCEPT
                      ![n] = fromRotationMatrix(LookAtMatrix(position[n], target, up))]
    /\ MarkDirtyCall(children, n)
    /\ lastOp' = Op("LookAt", n, [target |-> target, up |-> up])
    /\ UNCHANGED <<position, scale, parent, children, localMatrix, worldMatrix, ret, direct>>

\* The state after Transform() for every node, then 1.AddChild(2),
\* 2.AddChild(3) and 3.GetWorldMatrix(): the chain 1 - 2 - 3 with every
\* cache valid.
InitChain ==
    /\ position = [n \in Nodes |-> Vec3(0, 0, 0)]
    /\ rotation = [n \in Nodes |-> QuatIdentity]
    /\ scale = [n \in Nodes |-> Vec3(1, 1, 1)]
    /\ parent = [n \in Nodes |-> n - 1]
    /\ children = [n \in Nodes |-> IF n + 1 \in Nodes THEN <<n + 1>> ELSE << >>]
    /\ localMatrix = [n \in Nodes |-> Mat4Identity]
    /\ worldMatrix = [n \in Nodes |-> Mat4Identity]
    /\ dirty = [n \in Nodes |-> FALSE]
    /\ pc = "ready"
    /\ lastOp = Op("GetWorldMatrix", 3, None)
    /\ ret = Mat4Identity
    /\ direct = FALSE
    /\ budget = MaxCalls
    /\ calc = NoCalc

Next ==
    \/ \E n \in Nodes : GetLocalMatrix(n)
    \/ \E n \in Nodes : GetWorldMatrix(n)
    \/ \E n \in Nodes, v \in PositionInputs : SetPosition(n, v)
    \/ \E n \in Nodes, q \in RotationInputs : SetRotation(n, q)
    \/ \E n \in Nodes, v \in ScaleInputs : SetScale(n, v)
    \/ \E n \in Nodes, x \in Nodes \cup {None} : SetParent(n, x)
    \/ \E p \in Nodes, c \in Nodes : AddChild(p, c)
    \/ \E p \in Nodes, c \in Nodes \cup {None} : RemoveChild(p, c)
    \/ \E n \in Nodes, v \in TranslateInputs : Translate(n, v)
    \/ \E n \in Nodes, q \in RotateInputs : Rotate(n, q)
    \/ \E n \in Nodes, t \in TargetInputs, u \in UpInputs : LookAt(n, t, u)
    \/ \E n \in Nodes : Getter(n)

\* the whole interface, on the chain
Spec == InitChain /\ [][Next]_vars

NextLinks ==
    \/ \E n \in Nodes : GetLocalMatrix(n)
    \/ \E n \in Nodes : GetWorldMatrix(n)
    \/ \E p \in Nodes, c \in Nodes : AddChild(p, c)
    \/ \E p \in Nodes, c \in Nodes \cup {None} : RemoveChild(p, c)

\* hierarchies built with AddChild and RemoveChild only, from fresh nodes
SpecLinks == Init /\ [][NextLinks]_vars

\* the arguments of Transform(position, rotation, scale)
CtorPosition == Vec3(1, 0, 0)

CtorRotation == Quat(0, 0, 1, 0)

CtorScale == Vec3(2, 1, 1)

\* mutant: the constructors leave the dirty flag false
InitCtorClean ==
    /\ \E byDefault \in SUBSET Nodes :
          /\ position = [n \in Nodes |-> IF n \in byDefault THEN Vec3(0, 0, 0) ELSE CtorPosition]
          /\ rotation = [n \in Nodes |-> IF n \in byDefault THEN QuatIdentity ELSE CtorRotation]
          /\ scale = [n \in Nodes |-> IF n \in byDefault THEN Vec3(1, 1, 1) ELSE CtorScale]
          /\ lastOp = Op("Transform", None, byDefault)
    /\ parent = [n \in Nodes |-> None]
    /\ children = [n \in Nodes |-> << >>]
    /\ localMatrix = [n \in Nodes |-> Mat4Identity]
    /\ worldMatrix = [n \in Nodes |-> Mat4Identity]
    /\ dirty = [n \in Nodes |-> FALSE]
    /\ pc = "ready"
    /\ ret = Mat4Identity
    /\ direct = FALSE
    /\ budget = MaxCalls
    /\ calc = NoCalc

\* every node built by one of the two constructors: the nodes of byDefault
\* by Transform(), the others by Transform(position, rotation, scale);
\* lastOp.arg is byDefault
InitCtor ==
    /\ \E byDefault \in SUBSET Nodes :
          /\ position = [n \in Nodes |-> IF n \in byDefault THEN Vec3(0, 0, 0) ELSE CtorPosition]
          /\ rotation = [n \in Nodes |-> IF n \in byDefault THEN QuatIdentity ELSE CtorRotation]
          /\ scale = [n \in Nodes |-> IF n \in byDefault THEN Vec3(1, 1, 1) ELSE CtorScale]
          /\ lastOp = Op("Transform", None, byDefault)
    /\ parent = [n \in Nodes |-> None]
    /\ children = [n \in Nodes |-> << >>]
    /\ localMatrix = [n \in Nodes |-> Mat4Identity]
    /\ worldMatrix = [n \in Nodes |-> Mat4Identity]
    /\ dirty = [n \in Nodes |-> TRUE]
    /\ pc = "ready"
    /\ ret = Mat4Identity
    /\ direct = FALSE
    /\ budget = MaxCalls
    /\ calc = NoCalc

\* AddChild, RemoveChild and the queries on nodes built by either constructor
SpecCtor == InitCtor /\ [][NextLinks]_vars

\* ------------------------------------------- calls of the maths classes
transformVars == <<position, rotation, scale, parent, children, localMatrix,
                   worldMatrix, dirty, pc, lastOp, ret, direct, budget>>

ForwardOf(rot) == rotateVector(rot, FracVec(Vec3(0, 0, -1), 1))

RightOf(rot) == rotateVector(rot, FracVec(Vec3(1, 0, 0), 1))

UpOf(rot) == rotateVector(rot, FracVec(Vec3(0, 1, 0), 1))

\* Forward(), Right() and Up() of node n
Forward(n) == ForwardOf(Frac(rotation[n], 1))

Right(n) == RightOf(Frac(rotation[n], 1))

Up(n) == UpOf(Frac(rotation[n], 1))

\* (a * b).rotateVector(v); a run makes one call
QuatMulRotateVector ==
    /\ calc = NoCalc
    /\ \E a \in UnitQuats, b \in UnitQuats, v \in VectorInputs :
          /\ FracExact(FracMul(a, b))
          /\ calc' = [fn |-> "operator*", a |-> a, b |-> b, v |-> v,
                      out |-> rotateVector(FracMul(a, b), v)]
    /\ UNCHANGED transformVars

\* mutant: Rotate multiplies with the extra rotation on the left
RotateValueExtraLeft(r, extraRotation) == FracMul(extraRotation, r)

\* the rotation Rotate(extraRotation) leaves in a Transform of rotation r
RotateValue(r, extraRotation) == FracMul(r, extraRotation)

\* Transform t(position, r, scale); t.Rotate(extra); then t.Forward(),
\* t.Right() and t.Up()
RotateDirections ==
    /\ calc = NoCalc
    /\ \E r \in UnitQuats, extra \in UnitQuats :
          /\ FracExact(RotateValue(r, extra))
          /\ calc' = [fn |-> "Rotate", r |-> r, extra |-> extra,
                      Forward |-> ForwardOf(RotateValue(r, extra)),
                      Right |-> RightOf(RotateValue(r, extra)),
                      Up |-> UpOf(RotateValue(r, extra))]
    /\ UNCHANGED transformVars

\* Transform t(position, r, scale); then t.Forward(), t.Right() and t.Up()
Directions ==
    /\ calc = NoCalc
    /\ \E r \in UnitQuats :
          calc' = [fn |-> "Forward", r |-> r,
                   Forward |-> ForwardOf(r), Right |-> RightOf(r), Up |-> UpOf(r)]
    /\ UNCHANGED transformVars

\* GetLocalMatrix() of Transform t(Vec3(0, 0, 0), r, Vec3(1, 1, 1)), a
\* matrix of numerators m over the denominator den
LocalMatrixOf(r) ==
    LET scaleMat == Mat4scale(Mat4Identity, Vec3(1, 1, 1))
        rotateMat == FractoRotationMatrix(r)
    IN  [m |-> Mat4translation(Mat4Mul(rotateMat.m, scaleMat), Vec3(0, 0, 0)),
         den |-> rotateMat.den]

\* t.GetLocalMatrix() * Vec4(v, 0): the numerators of the product over the
\* denominator of the matrix
LocalMatrixTimes(lm, v) ==
    [v |-> Mat4MulVec4(lm.m, Vec4(v.x, v.y, v.z, 0)), den |-> lm.den]

\* Transform t(Vec3(0, 0, 0), r, Vec3(1, 1, 1)); then t.GetLocalMatrix()
\* times the three axes, and t.Forward(), t.Right() and t.Up()
LocalMatrixDirections ==
    /\ calc = NoCalc
    /\ \E r \in UnitQuats :
          calc' = [fn |-> "GetLocalMatrix", r |-> r,
                   timesForward |-> LocalMatrixTimes(LocalMatrixOf(r), Vec3(0, 0, -1)),
                   timesRight |-> LocalMatrixTimes(LocalMatrixOf(r), Vec3(1, 0, 0)),
                   timesUp |-> LocalMatrixTimes(LocalMatrixOf(r), Vec3(0, 1, 0)),
                   Forward |-> ForwardOf(r), Right |-> RightOf(r), Up |-> UpOf(r)]
    /\ UNCHANGED transformVars

\* Mat4 view = Mat4().lookAt(eye, target, up); then view * Vec4(eye, 1)
LookAtEye ==
    /\ calc = NoCalc
    /\ \E eye \in EyeInputs, target \in LookAtTargetInputs, up \in LookAtUpInputs :
          /\ Mat4lookAtExact(eye, target, up)
          /\ calc' = [fn |-> "lookAt", eye |-> eye, target |-> target, up |-> up,
                      view |-> Mat4lookAt(eye, target, up),
                      out |-> Mat4MulVec4(Mat4lookAt(eye, target, up),
                                          Vec4(eye.x, eye.y, eye.z, 1))]
    /\ UNCHANGED transformVars

\* the matrices at() is called on: element i holds i
Mat3Counting == [i \in 0..8 |-> i]

Mat4Counting == [i \in 0..15 |-> i]

MaxIndex == 4         \* |row| and |col| of the at() calls

IndexInputs == (-MaxIndex)..MaxIndex

\* m.at(row, col) of a Mat3
At3 ==
    /\ calc = NoCalc
    /\ \E m \in {Mat3Counting}, row \in IndexInputs, col \in IndexInputs :
          calc' = [fn |-> "Mat3::at", m |-> m, row |-> row, col |-> col,
                   out |-> Mat3at(m, row, col)]
    /\ UNCHANGED transformVars

\* m.at(row, col) of a Mat4
At4 ==
    /\ calc = NoCalc
    /\ \E m \in {Mat4Counting, Mat4Identity}, row \in IndexInputs, col \in IndexInputs :
          calc' = [fn |-> "Mat4::at", m |-> m, row |-> row, col |-> col,
                   out |-> Mat4at(m, row, col)]
    /\ UNCHANGED transformVars

\* the matrix of the identity with one diagonal element replaced by d
DiagonalWith(i, d) == [Mat4Identity EXCEPT ![i] = d]

\* the matrices inverse() is called on: translations, the matrices that
\* flip or flatten one axis, and a rotation by a quarter turn about z
MatrixInputs ==
    {Mat4translation(Mat4Identity, Vec3(x, y, z)) :
        x \in (-MaxCoord)..MaxCoord, y \in (-MaxCoord)..MaxCoord,
        z \in (-MaxCoord)..MaxCoord}
    \cup {DiagonalWith(i, d) : i \in {0, 5, 10, 15}, d \in {-1, 0}}
    \cup {[Mat4Identity EXCEPT ![0] = 0, ![1] = 1, ![4] = -1, ![5] = 0]}

\* m.inverse()
Inverse ==
    /\ calc = NoCalc
    /\ \E m \in MatrixInputs :
          /\ Abs(Mat4determinant(m)) <= 1
          /\ calc' = [fn |-> "inverse", m |-> m, out |-> Mat4inverse(m)]
    /\ UNCHANGED transformVars

\* rayIntersectsAABB(Ray(origin, direction), box, distance)
RayAABB ==
    /\ calc = NoCalc
    /\ \E origin \in OriginInputs, direction \in DirectionInputs, box \in BoxInputs :
          /\ Vec3Exact(direction)
          /\ calc' = [fn |-> "rayIntersectsAABB", ray |-> Ray(origin, direction),
                      box |-> box, out |-> rayIntersectsAABB(Ray(origin, direction), box)]
    /\ UNCHANGED transformVars

\* rayIntersectsSphere(Ray(origin, direction), sphere, distance)
RaySphere ==
    /\ calc = NoCalc
    /\ \E origin \in OriginInputs, direction \in DirectionInputs, sphere \in SphereInputs :
          /\ Vec3Exact(direction)
          /\ rayIntersectsSphereExact(Ray(origin, direction), sphere)
          /\ calc' = [fn |-> "rayIntersectsSphere", ray |-> Ray(origin, direction),
                      sphere |-> sphere,
                      out |-> rayIntersectsSphere(Ray(origin, direction), sphere)]
    /\ UNCHANGED transformVars

NextMaths ==
    \/ QuatMulRotateVector
    \/ RotateDirections
    \/ Directions
    \/ At3
    \/ At4
    \/ Inverse
    \/ RayAABB
    \/ RaySphere
    \/ LocalMatrixDirections
    \/ LookAtEye

\* one call of a function of the maths classes, on every input
SpecMaths == Init /\ [][NextMaths]_vars

\* ------------------------------------------------------------ properties
\* the matrices of the textbook: T(t) translates by t, S(s) scales by s
TranslationOf(t) ==
    [i \in 0..15 |->
        CASE i = 12 -> t.x
          [] i = 13 -> t.y
          [] i = 14 -> t.z
          [] i \in {0, 5, 10, 15} -> 1
          [] OTHER -> 0]

ScalingOf(s) ==
    [i \in 0..15 |->
        CASE i = 0 -> s.x
          [] i = 5 -> s.y
          [] i = 10 -> s.z
          [] i = 15 -> 1
          [] OTHER -> 0]

\* T(position) * R(rotation) * S(scale) of the current fields of node n
TRS(n) ==
    Mat4Mul(TranslationOf(position[n]),
            Mat4Mul(toRotationMatrix(rotation[n]), ScalingOf(scale[n])))

\* the product, root first, of TRS along the parent chain of n
RECURSIVE ChainProduct(_)
ChainProduct(n) ==
    IF parent[n] = None THEN TRS(n) ELSE Mat4Mul(ChainProduct(parent[n]), TRS(n))

\* the nodes above n on its parent chain, for parent pointers par
AncestorsOf(par, n) ==
    LET up(S) == S \cup {par[m] : m \in S \ {None}}
        one == {par[n]}
    IN  up(up(up(one))) \ {None}

\* the nodes reachable from n through child lists ch, n included
ReachOf(ch, n) ==
    LET down(S) == S \cup UNION {Range(ch[m]) : m \in S}
    IN  down(down(down({n})))

MutatorOps == {"SetPosition", "SetRotation", "SetScale", "SetParent",
               "Translate", "Rotate", "LookAt"}

NodeFields == <<position, rotation, scale, parent, children, localMatrix,
                worldMatrix, dirty>>

\* C1: a GetWorldMatrix call that returns gives the product, root first, of
\* T*R*S of the current position, rotation and scale of every node on the
\* current parent chain, whatever was cached before
C1_WorldMatrixCurrent ==
    (pc = "ready" /\ lastOp.op = "GetWorldMatrix")
        => ret = ChainProduct(lastOp.node)

\* C1 witness: GetWorldMatrix on a node two levels below a root whose
\* position was changed after its matrix had been cached
C1_Witness ==
    /\ pc = "ready"
    /\ lastOp.op = "GetWorldMatrix"
    /\ parent[lastOp.node] # None
    /\ parent[parent[lastOp.node]] # None
    /\ position[parent[parent[lastOp.node]]] # Vec3(0, 0, 0)
    /\ ret = ChainProduct(lastOp.node)
    /\ ret # Mat4Identity

\* C2: with no direct SetParent call before, a mutator that returns leaves
\* its node and every node below it on the parent chains dirty
C2_MutatorDirtiesDescendants ==
    [][(~direct /\ pc' = "ready" /\ lastOp'.op \in MutatorOps)
          => \A m \in Nodes :
                (m = lastOp'.node \/ lastOp'.node \in AncestorsOf(parent', m))
                    => dirty'[m]]_vars

\* C2 witness: a mutator has acted on a node that has a grandchild, in a
\* hierarchy without direct SetParent calls
C2_Witness ==
    /\ ~direct
    /\ pc = "ready"
    /\ lastOp.op \in MutatorOps
    /\ \E m \in Nodes :
          /\ parent[m] # None
          /\ parent[parent[m]] = lastOp.node
          /\ dirty[m]

\* C3: a clean node caches T*R*S of its current fields, and GetLocalMatrix
\* returns that matrix
C3_CacheCoherent ==
    /\ \A n \in Nodes : ~dirty[n] => localMatrix[n] = TRS(n)
    /\ lastOp.op = "GetLocalMatrix" => ret = TRS(lastOp.node)

\* C3 witness: a clean node whose fields are not the initial ones, read by
\* GetLocalMatrix
C3_Witness ==
    /\ lastOp.op = "GetLocalMatrix"
    /\ ~dirty[lastOp.node]
    /\ position[lastOp.node] # Vec3(0, 0, 0)
    /\ scale[lastOp.node] # Vec3(1, 1, 1)
    /\ ret = localMatrix[lastOp.node]

\* C4: a GetLocalMatrix call right after a GetLocalMatrix call on the same
\* node returns the same matrix and changes no field of any node
C4_GetLocalMatrixIdempotent ==
    [][(lastOp.op = "GetLocalMatrix" /\ lastOp'.op = "GetLocalMatrix"
            /\ lastOp'.node = lastOp.node)
          => (ret' = ret /\ UNCHANGED NodeFields)]_vars

\* C4 witness: the second of two consecutive calls on a node that was
\* mutated
C4_Witness ==
    /\ lastOp.op = "GetLocalMatrix"
    /\ lastOp.again
    /\ ret # Mat4Identity

\* seq without c, the other elements in their order
RECURSIVE Without(_, _)
Without(seq, c) ==
    IF seq = << >>
    THEN << >>
    ELSE IF Head(seq) = c
    THEN Without(Tail(seq), c)
    ELSE <<Head(seq)>> \o Without(Tail(seq), c)

Occurrences(seq, c) == Cardinality({i \in 1..Len(seq) : seq[i] = c})

ListsHolding(ch, c) == {p \in Nodes : c \in Range(ch[p])}

\* C5: after parentA.AddChild(n) and then parentB.AddChild(n), for distinct
\* nodes, n's parent is parentB, n is not in parentA's child list, and n is
\* in one child list only
C5_ReparentingConsistent ==
    [][(/\ lastOp.op = "AddChild"
        /\ lastOp'.op = "AddChild"
        /\ pc' = "ready"
        /\ lastOp'.arg = lastOp.arg
        /\ lastOp'.node # lastOp.node
        /\ lastOp.arg \notin {lastOp.node, lastOp'.node})
          => (/\ parent'[lastOp.arg] = lastOp'.node
              /\ lastOp.arg \notin Range(children'[lastOp.node])
              /\ Cardinality(ListsHolding(children', lastOp.arg)) <= 1)]_vars

\* C6: p.AddChild(n), with n not in p's list before, followed by
\* p.RemoveChild(n) leaves n without parent, n out of p's list, and p's list
\* as it was before the AddChild
C6_DetachRoundTrip ==
    [][(/\ lastOp.op = "AddChild"
        /\ lastOp.arg \notin Range(lastOp.pre)
        /\ lastOp'.op = "RemoveChild"
        /\ lastOp'.node = lastOp.node
        /\ lastOp'.arg = lastOp.arg)
          => (/\ pc' = "ready"
              /\ parent'[lastOp.arg] = None
              /\ lastOp.arg \notin Range(children'[lastOp.node])
              /\ children'[lastOp.node] = lastOp.pre)]_vars

\* C6 witness: the RemoveChild of the round trip has acted, on a parent that
\* keeps another child
C6_Witness ==
    /\ pc = "ready"
    /\ lastOp.op = "RemoveChild"
    /\ lastOp.arg # None
    /\ Occurrences(lastOp.pre, lastOp.arg) = 1
    /\ lastOp.pre[Len(lastOp.pre)] = lastOp.arg
    /\ children[lastOp.node] # << >>
    /\ parent[lastOp.arg] = None

\* C7: after AddChild and RemoveChild calls only, c is in p's child list
\* exactly when c's parent is p
C7_LinksConsistent ==
    pc = "ready" =>
        \A p \in Nodes, c \in Nodes : (c \in Range(children[p])) <=> (parent[c] = p)

\* C8: an AddChild call that returns leaves the child last in the list, the
\* earlier elements as they were, the child's parent set to the receiver,
\* and the child and everything below it in the child lists dirty
C8_AddChildLinks ==
    [][(lastOp'.op = "AddChild" /\ pc' = "ready")
          => LET p == lastOp'.node
                 c == lastOp'.arg
             IN  /\ Len(children'[p]) = Len(children[p]) + 1
                 /\ children'[p][Len(children'[p])] = c
                 /\ \A i \in 1..Len(children[p]) : children'[p][i] = children[p][i]
                 /\ \A q \in Nodes \ {p} : children'[q] = children[q]
                 /\ parent'[c] = p
                 /\ \A m \in ReachOf(children', c) : dirty'[m]]_vars

\* C8 witness: AddChild has appended, to a list that was not empty, a child
\* that has a child of its own
C8_Witness ==
    /\ pc = "ready"
    /\ lastOp.op = "AddChild"
    /\ lastOp.pre # << >>
    /\ children[lastOp.arg] # << >>
    /\ parent[lastOp.arg] = lastOp.node
    /\ \A m \in ReachOf(children, lastOp.arg) : dirty[m]

\* C9: RemoveChild of a child that is in the list removes every occurrence
\* and keeps the order of the others; the child's parent becomes none if it
\* was the receiver, and otherwise its parent and dirty flag are unchanged
C9_RemoveChildPresent ==
    [][(lastOp'.op = "RemoveChild"
            /\ lastOp'.arg \in Range(children[lastOp'.node]))
          => LET p == lastOp'.node
                 c == lastOp'.arg
             IN  /\ pc' = "ready"
                 /\ c \notin Range(children'[p])
                 /\ children'[p] = Without(children[p], c)
                 /\ IF parent[c] = p
                    THEN parent'[c] = None
                    ELSE parent'[c] = parent[c] /\ dirty'[c] = dirty[c]]_vars

\* C9 witness: RemoveChild has removed a child that was twice in the list
C9_Witness ==
    /\ pc = "ready"
    /\ lastOp.op = "RemoveChild"
    /\ lastOp.arg # None
    /\ Occurrences(lastOp.pre, lastOp.arg) = 2
    /\ lastOp.arg \notin Range(children[lastOp.node])
    /\ parent[lastOp.arg] = None

\* C10: RemoveChild of a child that is not in the list returns and changes
\* no field of any node, also when the child's parent is the receiver
C10_RemoveChildAbsent ==
    [][(lastOp'.op = "RemoveChild"
            /\ lastOp'.arg \notin Range(children[lastOp'.node]))
          => (pc' = "ready" /\ UNCHANGED NodeFields)]_vars

\* C10 witness: RemoveChild has been called with a child that was linked by
\* a direct SetParent and is not in the list
C10_Witness ==
    /\ pc = "ready"
    /\ lastOp.op = "RemoveChild"
    /\ lastOp.arg # None
    /\ lastOp.arg \notin Range(lastOp.pre)
    /\ direct
    /\ parent[lastOp.arg] = lastOp.node
    /\ ~dirty[lastOp.node]

\* C11: SetParent(x) on n changes no child list and no position, rotation
\* or scale; when it returns, n's parent is x and n and every node below n
\* in the child lists is dirty
C11_SetParentFrame ==
    [][lastOp'.op = "SetParent"
          => /\ UNCHANGED <<children, position, rotation, scale>>
             /\ pc' = "ready"
                  => /\ parent'[lastOp'.node] = lastOp'.arg
                     /\ \A m \in ReachOf(children, lastOp'.node) : dirty'[m]]_vars

\* C11 witness: after a direct SetParent a node with a child of its own has
\* a parent whose child list does not hold it
C11_Witness ==
    /\ pc = "ready"
    /\ lastOp.op = "SetParent"
    /\ lastOp.arg # None
    /\ parent[lastOp.node] = lastOp.arg
    /\ lastOp.node \notin Range(children[lastOp.arg])
    /\ children[lastOp.node] # << >>
    /\ \A m \in ReachOf(children, lastOp.node) : dirty[m]

\* C12: for a Transform of unit rotation r and a unit quaternion extra,
\* after Rotate(extra) each of Forward(), Right() and Up() is
\* extra.rotateVector(r.rotateVector(axis)) of its axis
C12_RotateAfterExisting ==
    calc.fn = "Rotate"
        => /\ FracVecEq(calc.Forward,
                        rotateVector(calc.extra,
                                     rotateVector(calc.r, FracVec(Vec3(0, 0, -1), 1))))
           /\ FracVecEq(calc.Right,
                        rotateVector(calc.extra,
                                     rotateVector(calc.r, FracVec(Vec3(1, 0, 0), 1))))
           /\ FracVecEq(calc.Up,
                        rotateVector(calc.extra,
                                     rotateVector(calc.r, FracVec(Vec3(0, 1, 0), 1))))

\* C12 witness: Rotate has acted with two rotations whose order matters:
\* applying extra first and r second gives another Forward()
C12_Witness ==
    /\ calc.fn = "Rotate"
    /\ ~FracVecEq(calc.Forward,
                  rotateVector(calc.r,
                               rotateVector(calc.extra, FracVec(Vec3(0, 0, -1), 1))))
    /\ FracVecEq(calc.Forward,
                 rotateVector(calc.extra,
                              rotateVector(calc.r, FracVec(Vec3(0, 0, -1), 1))))

\* C13: for unit quaternions A and B and a vector v,
\* (A * B).rotateVector(v) is A.rotateVector(B.rotateVector(v))
C13_RightOperandFirst ==
    calc.fn = "operator*"
        => FracVecEq(calc.out, rotateVector(calc.a, rotateVector(calc.b, calc.v)))

\* the points the matrices are applied to
PointInputs == {Vec3(0, 0, 0), Vec3(1, 0, 0), Vec3(0, 1, 0), Vec3(1, 2, 3)}

\* C14: for a node of identity rotation, position t and scale s, the matrix
\* GetLocalMatrix returns maps the point (px, py, pz, 1) to
\* (sx*px + tx, sy*py + ty, sz*pz + tz, 1)
C14_ScaleThenTranslate ==
    (lastOp.op = "GetLocalMatrix" /\ rotation[lastOp.node] = QuatIdentity)
        => LET t == position[lastOp.node]
               s == scale[lastOp.node]
           IN  \A p \in PointInputs :
                  Mat4MulVec4(ret, Vec4(p.x, p.y, p.z, 1))
                      = Vec4((s.x * p.x) + t.x, (s.y * p.y) + t.y, (s.z * p.z) + t.z, 1)

\* C14 witness: position (1,0,0), identity rotation and scale (2,1,1) map
\* the point (1,0,0) to (3,0,0)
C14_Witness ==
    /\ lastOp.op = "GetLocalMatrix"
    /\ rotation[lastOp.node] = QuatIdentity
    /\ position[lastOp.node] = Vec3(1, 0, 0)
    /\ scale[lastOp.node] = Vec3(2, 1, 1)
    /\ Mat4MulVec4(ret, Vec4(1, 0, 0, 1)) = Vec4(3, 0, 0, 1)

\* the sum of the positions of n and of every node above it
RECURSIVE ChainPositionSum(_)
ChainPositionSum(n) ==
    IF parent[n] = None
    THEN position[n]
    ELSE Vec3Add(ChainPositionSum(parent[n]), position[n])

\* every node from n up to its root has identity rotation, and scale
\* (1,1,1) when unitScale is asked for
RECURSIVE ChainPlain(_, _)
ChainPlain(n, unitScale) ==
    /\ rotation[n] = QuatIdentity
    /\ unitScale => scale[n] = Vec3(1, 1, 1)
    /\ parent[n] # None => ChainPlain(parent[n], unitScale)

\* C15: with identity rotations, the world matrix of a child C of a root P
\* maps the origin to P.position + P.scale * C.position (componentwise), and
\* along a chain of nodes of scale (1,1,1) it maps the origin to the sum of
\* the positions of the chain
C15_ParentOnTheLeft ==
    (pc = "ready" /\ lastOp.op = "GetWorldMatrix")
        => LET c == lastOp.node
               origin == Mat4MulVec4(ret, Vec4(0, 0, 0, 1))
           IN  /\ (parent[c] # None /\ parent[parent[c]] = None /\ ChainPlain(c, FALSE))
                    => origin = Vec4(position[parent[c]].x
                                        + (scale[parent[c]].x * position[c].x),
                                     position[parent[c]].y
                                        + (scale[parent[c]].y * position[c].y),
                                     position[parent[c]].z
                                        + (scale[parent[c]].z * position[c].z), 1)
               /\ ChainPlain(c, TRUE)
                    => origin = Vec4(ChainPositionSum(c).x, ChainPositionSum(c).y,
                                     ChainPositionSum(c).z, 1)

\* C15 witness: a root at (1,0,0) and its child at (0,1,0), identity
\* rotations and scales (1,1,1): the child's world matrix maps the origin
\* to (1,1,0)
C15_Witness ==
    /\ pc = "ready"
    /\ lastOp.op = "GetWorldMatrix"
    /\ parent[lastOp.node] # None
    /\ parent[parent[lastOp.node]] = None
    /\ ChainPlain(lastOp.node, TRUE)
    /\ position[parent[lastOp.node]] = Vec3(1, 0, 0)
    /\ position[lastOp.node] = Vec3(0, 1, 0)
    /\ Mat4MulVec4(ret, Vec4(0, 0, 0, 1)) = Vec4(1, 1, 0, 1)

FracVecdot(a, b) == (a.v.x * b.v.x) + (a.v.y * b.v.y) + (a.v.z * b.v.z)

\* the vector has length 1
FracVecUnit(a) == Vec3lengthSq(a.v) = a.den * a.den

\* C16: for a unit rotation, Forward(), Right() and Up() have length 1 and
\* are pairwise orthogonal; for the identity rotation they are (0,0,-1),
\* (1,0,0) and (0,1,0)
C16_DirectionsOrthonormal ==
    calc.fn = "Forward"
        => /\ FracVecUnit(calc.Forward)
           /\ FracVecUnit(calc.Right)
           /\ FracVecUnit(calc.Up)
           /\ FracVecdot(calc.Forward, calc.Right) = 0
           /\ FracVecdot(calc.Forward, calc.Up) = 0
           /\ FracVecdot(calc.Right, calc.Up) = 0
           /\ calc.r = Frac(QuatIdentity, 1)
                => /\ FracVecEq(calc.Forward, FracVec(Vec3(0, 0, -1), 1))
                   /\ FracVecEq(calc.Right, FracVec(Vec3(1, 0, 0), 1))
                   /\ FracVecEq(calc.Up, FracVec(Vec3(0, 1, 0), 1))

\* C16 witness: the directions of a rotation that moves all three axes
C16_Witness ==
    /\ calc.fn = "Forward"
    /\ ~FracVecEq(calc.Forward, FracVec(Vec3(0, 0, -1), 1))
    /\ ~FracVecEq(calc.Forward, FracVec(Vec3(0, 0, 1), 1))
    /\ ~FracVecEq(calc.Right, FracVec(Vec3(1, 0, 0), 1))
    /\ ~FracVecEq(calc.Right, FracVec(Vec3(-1, 0, 0), 1))
    /\ FracVecUnit(calc.Forward)
    /\ FracVecdot(calc.Forward, calc.Right) = 0

\* C17: LookAt(target, up) on a node at p, with target # p and up not
\* parallel to target - p, leaves Forward() equal to normalize(target - p)
\* and does not change position or scale
C17_LookAtFacesTarget ==
    [][(/\ lastOp'.op = "LookAt"
        /\ lastOp'.arg.target # position[lastOp'.node]
        /\ Vec3cross(lastOp'.arg.up, Vec3Sub(lastOp'.arg.target, position[lastOp'.node]))
              # Vec3(0, 0, 0))
          => /\ FracVecEq(ForwardOf(Frac(rotation'[lastOp'.node], 1)),
                          FracVec(Vec3normalised(Vec3Sub(lastOp'.arg.target,
                                                         position[lastOp'.node])), 1))
             /\ position' = position
             /\ scale' = scale]_vars

\* C18: right after construction by either constructor every node has no
\* parent, an empty child list and dirty = TRUE, and a node built by the
\* default constructor has position (0,0,0), identity rotation and scale
\* (1,1,1); the first GetLocalMatrix call on such a node returns the
\* identity matrix and leaves the node clean
C18_InitialState ==
    [][lastOp.op = "Transform"
          => /\ \A n \in Nodes :
                  /\ parent[n] = None
                  /\ children[n] = << >>
                  /\ dirty[n]
                  /\ n \in lastOp.arg
                       => /\ position[n] = Vec3(0, 0, 0)
                          /\ rotation[n] = QuatIdentity
                          /\ scale[n] = Vec3(1, 1, 1)
             /\ (lastOp'.op = "GetLocalMatrix" /\ lastOp'.node \in lastOp.arg)
                  => /\ ret' = Mat4Identity
                     /\ localMatrix'[lastOp'.node] = Mat4Identity
                     /\ ~dirty'[lastOp'.node]]_vars

\* C18 witness: the first call is GetLocalMatrix on a node built by the
\* default constructor, next to a node built with arguments
C18_Witness ==
    /\ lastOp.op = "GetLocalMatrix"
    /\ budget = MaxCalls - 1
    /\ position[lastOp.node] = Vec3(0, 0, 0)
    /\ rotation[lastOp.node] = QuatIdentity
    /\ scale[lastOp.node] = Vec3(1, 1, 1)
    /\ \E m \in Nodes : position[m] = CtorPosition /\ dirty[m]
    /\ ret = Mat4Identity
    /\ ~dirty[lastOp.node]

\* C19: for Mat3 (N = 3) and Mat4 (N = 4), at(row, col) returns the element
\* m[col*N + row] when 0 <= row < N and 0 <= col < N, and throws
\* out_of_range, returning no value, for every other row or col, negative
\* ones included
C19_AtBoundsChecked ==
    calc.fn \in {"Mat3::at", "Mat4::at"}
        => LET N == IF calc.fn = "Mat3::at" THEN 3 ELSE 4
           IN  IF calc.row \in 0..(N - 1) /\ calc.col \in 0..(N - 1)
               THEN /\ ~calc.out.threw
                    /\ calc.out.value = calc.m[(calc.col * N) + calc.row]
               ELSE calc.out = OutOfRange

\* C19 witness: at() has returned an element off the diagonal of a Mat4,
\* which tells rows from columns
C19_Witness ==
    /\ calc.fn = "Mat4::at"
    /\ calc.row = 1
    /\ calc.col = 2
    /\ calc.m = Mat4Counting
    /\ calc.out = Returned(9)

\* C20: for a Mat4 m with determinant not 0, m * m.inverse() and
\* m.inverse() * m are the identity matrix; for a determinant of 0
\* inverse() returns the identity matrix
C20_InverseIsInverse ==
    calc.fn = "inverse"
        => IF Mat4determinant(calc.m) # 0
           THEN /\ Mat4Mul(calc.m, calc.out) = Mat4Identity
                /\ Mat4Mul(calc.out, calc.m) = Mat4Identity
           ELSE calc.out = Mat4Identity

\* the point of the ray at the distance t
RayPoint(ray, t) == Vec3Add(ray.origin, Vec3Scale(ray.direction, t))

InBox(box, q) ==
    /\ box.min.x <= q.x /\ q.x <= box.max.x
    /\ box.min.y <= q.y /\ q.y <= box.max.y
    /\ box.min.z <= q.z /\ q.z <= box.max.z

\* the distances at which a ray along an axis, with integer origin, can
\* enter a box with integer corners
EntryDistances == 0..20

\* the distances at which the half-line is in the box
BoxDistances(ray, box) == {t \in EntryDistances : InBox(box, RayPoint(ray, t))}

Least(S) == CHOOSE t \in S : \A u \in S : t <= u

\* C21: for a ray whose origin is outside the box and whose half-line
\* meets the box, rayIntersectsAABB returns true with the distance from the
\* origin to the first point of the box; for a ray whose half-line does not
\* meet the box it returns false
C21_RayAABBEntryDistance ==
    calc.fn = "rayIntersectsAABB"
        => IF BoxDistances(calc.ray, calc.box) = {}
           THEN ~calc.out.hit
           ELSE ~InBox(calc.box, calc.ray.origin)
                   => /\ calc.out.hit
                      /\ calc.out.distance = Num(Least(BoxDistances(calc.ray, calc.box)))

\* C22: for a ray whose origin is strictly inside the sphere,
\* rayIntersectsSphere returns true with a distance that is not negative
\* and at which the ray is on the surface of the sphere
C22_RayFromInsideSphere ==
    (/\ calc.fn = "rayIntersectsSphere"
     /\ Vec3lengthSq(Vec3Sub(calc.ray.origin, calc.sphere.center))
           < calc.sphere.radius * calc.sphere.radius)
        => /\ calc.out.hit
           /\ calc.out.distance >= 0
           /\ Vec3lengthSq(Vec3Sub(RayPoint(calc.ray, calc.out.distance),
                                   calc.sphere.center))
                 = calc.sphere.radius * calc.sphere.radius

\* n and the nodes above it on the parent chain
ChainOf(par, n) == {n} \cup AncestorsOf(par, n)

\* C23: a dirty flag goes from true to false only in GetLocalMatrix on that
\* node, called directly or by GetWorldMatrix: GetLocalMatrix(n) clears the
\* flag of n only, a GetWorldMatrix(n) that returns clears the flags of n
\* and of the nodes above n on the parent chain and no other, and no other
\* call clears a flag
C23_OnlyReadsClean ==
    [][/\ lastOp'.op = "GetLocalMatrix"
            => \A m \in Nodes :
                  dirty'[m] = IF m = lastOp'.node THEN FALSE ELSE dirty[m]
       /\ (lastOp'.op = "GetWorldMatrix" /\ pc' = "ready")
            => \A m \in Nodes :
                  dirty'[m] = IF m \in ChainOf(parent, lastOp'.node)
                              THEN FALSE
                              ELSE dirty[m]
       /\ lastOp'.op = "GetWorldMatrix"
            => \A m \in Nodes \ ChainOf(parent, lastOp'.node) : dirty'[m] = dirty[m]
       /\ lastOp'.op \notin {"GetLocalMatrix", "GetWorldMatrix"}
            => \A m \in Nodes : dirty[m] => dirty'[m]]_vars

\* C23 witness: GetWorldMatrix on the node at the bottom of the chain has
\* cleaned the three nodes that a mutator on the root had made dirty
C23_Witness ==
    /\ pc = "ready"
    /\ lastOp.op = "GetWorldMatrix"
    /\ parent[lastOp.node] # None
    /\ parent[parent[lastOp.node]] # None
    /\ position[parent[parent[lastOp.node]]] # Vec3(0, 0, 0)
    /\ localMatrix[parent[parent[lastOp.node]]] # Mat4Identity
    /\ \A m \in ChainOf(parent, lastOp.node) : ~dirty[m]

\* the node on which a call runs MarkDirty: the node itself for a mutator,
\* the child for AddChild and RemoveChild
MarkedBy(op) == IF op.op \in {"AddChild", "RemoveChild"} THEN op.arg ELSE op.node

\* C24: a mutator on n changes the dirty flag of no node other than n and
\* the nodes reachable from n through child lists, and the cached
\* localMatrix of no node: a clean parent, ancestor or sibling stays clean
C24_NoUpwardInvalidation ==
    [][lastOp'.op \in MutatorOps \cup {"AddChild", "RemoveChild"}
          => /\ localMatrix' = localMatrix
             /\ \A m \in Nodes :
                   (MarkedBy(lastOp') = None \/ m \notin ReachOf(children', MarkedBy(lastOp')))
                       => dirty'[m] = dirty[m]]_vars

\* C24 witness: a mutator has run on a node with a child, both are dirty
\* and the clean parent is still clean
C24_Witness ==
    /\ pc = "ready"
    /\ lastOp.op \in MutatorOps
    /\ parent[lastOp.node] # None
    /\ lastOp.node \in Range(children[parent[lastOp.node]])
    /\ ~dirty[parent[lastOp.node]]
    /\ dirty[lastOp.node]
    /\ \E c \in Range(children[lastOp.node]) : dirty[c]

\* every field of node m that is not its dirty flag or a cached matrix
FieldsOf(pos, rot, sc, par, ch, m) ==
    [position |-> pos[m], rotation |-> rot[m], scale |-> sc[m],
     parent |-> par[m], children |-> ch[m]]

\* C25: SetPosition(v) sets the position to v and Translate(d) to the old
\* position plus d, SetRotation and Rotate change the rotation only,
\* SetScale changes the scale only, and none of them changes a parent
\* pointer, a child list or a field of another node
C25_FieldMutatorsOwnField ==
    [][lastOp'.op \in {"SetPosition", "Translate", "SetRotation", "Rotate", "SetScale"}
          => LET n == lastOp'.node
                 before == FieldsOf(position, rotation, scale, parent, children, n)
                 after == FieldsOf(position', rotation', scale', parent', children', n)
             IN  /\ parent' = parent
                 /\ children' = children
                 /\ \A m \in Nodes \ {n} :
                       FieldsOf(position', rotation', scale', parent', children', m)
                           = FieldsOf(position, rotation, scale, parent, children, m)
                 /\ lastOp'.op = "SetPosition"
                       => after = [before EXCEPT !.position = lastOp'.arg]
                 /\ lastOp'.op = "Translate"
                       => after = [before EXCEPT !.position = Vec3Add(@, lastOp'.arg)]
                 /\ lastOp'.op = "SetRotation"
                       => after = [before EXCEPT !.rotation = lastOp'.arg]
                 /\ lastOp'.op = "Rotate"
                       => after = [before EXCEPT !.rotation = after.rotation]
                 /\ lastOp'.op = "SetScale"
                       => after = [before EXCEPT !.scale = lastOp'.arg]]_vars

\* C25 witness: Translate has moved a node that was not at the origin, and
\* the node has kept the rotation and the scale it was given before
C25_Witness ==
    /\ pc = "ready"
    /\ lastOp.op = "Translate"
    /\ position[lastOp.node] \notin {Vec3(0, 0, 0), lastOp.arg}
    /\ scale[lastOp.node] # Vec3(1, 1, 1)

\* the nodes below n in child lists ch, n itself only when a cycle leads back
DescendantsOf(ch, n) == UNION {ReachOf(ch, c) : c \in Range(ch[n])}

\* following parent pointers from n meets some node a second time
ParentCycleFrom(par, n) == \E m \in ChainOf(par, n) : m \in AncestorsOf(par, m)

\* following child lists from n meets some node below itself
ChildCycleFrom(ch, n) == \E m \in ReachOf(ch, n) : m \in DescendantsOf(ch, m)

\* C26: no call rejects a cycle.  SetParent stores the pointer it is given
\* and AddChild appends the child it is given, also when that closes a
\* cycle; GetWorldMatrix on a node whose parent chain holds a cycle never
\* returns, and MarkDirty, so every mutator, on a node whose child lists
\* lead into a cycle never returns
C26_CyclesDiverge ==
    [][/\ lastOp'.op = "SetParent" => parent'[lastOp'.node] = lastOp'.arg
       /\ lastOp'.op = "AddChild"
            => /\ children'[lastOp'.node] = Append(children[lastOp'.node], lastOp'.arg)
               /\ parent'[lastOp'.arg] = lastOp'.node
       /\ (lastOp'.op = "GetWorldMatrix" /\ ParentCycleFrom(parent, lastOp'.node))
            => pc' = "diverged"
       /\ (lastOp'.op \in MutatorOps \cup {"AddChild"}
              /\ ChildCycleFrom(children', MarkedBy(lastOp')))
            => pc' = "diverged"]_vars

\* C26 witness: a.AddChild(b) then b.AddChild(a), the second call has not
\* returned and each node is in the child list of the other
C26_Witness ==
    /\ pc = "diverged"
    /\ lastOp.op = "AddChild"
    /\ lastOp.node # lastOp.arg
    /\ lastOp.node \in Range(children[lastOp.arg])
    /\ lastOp.arg \in Range(children[lastOp.node])

\* a GetWorldMatrix call that has not returned, on a cycle of two parent
\* pointers that two SetParent calls have left
C26_ParentCycleReached ==
    /\ pc = "diverged"
    /\ lastOp.op = "GetWorldMatrix"
    /\ parent[lastOp.node] \notin {None, lastOp.node}
    /\ parent[parent[lastOp.node]] = lastOp.node

\* C27: on child lists without a cycle MarkDirty returns, so every mutator
\* returns, also when a node is in several child lists or twice in one
\* list; on a parent chain without a cycle GetWorldMatrix returns, after
\* evaluating GetLocalMatrix once on each node of the chain and on no other
C27_AcyclicTerminates ==
    [][/\ (lastOp'.op \in MutatorOps \cup {"AddChild", "RemoveChild"}
              /\ MarkedBy(lastOp') # None
              /\ ~ChildCycleFrom(children', MarkedBy(lastOp')))
            => pc' = "ready"
       /\ (lastOp'.op = "GetWorldMatrix" /\ ~ParentCycleFrom(parent, lastOp'.node))
            => /\ pc' = "ready"
               /\ GetLocalMatrixCalls(lastOp'.node, [m \in Nodes |-> 0])
                    = [m \in Nodes |->
                          IF m \in ChainOf(parent, lastOp'.node) THEN 1 ELSE 0]
               /\ \A m \in ChainOf(parent, lastOp'.node) : ~dirty'[m]]_vars

\* C27 witness: a mutator has returned on a node that holds the same child
\* twice in its list, and that child is dirty
C27_Witness ==
    /\ pc = "ready"
    /\ lastOp.op \in MutatorOps \ {"SetParent"}
    /\ \E c \in Nodes :
          /\ Occurrences(children[lastOp.node], c) = 2
          /\ dirty[c]
    /\ ~ChildCycleFrom(children, lastOp.node)

\* GetWorldMatrix has returned on a node two levels below the root
C27_ChainWalked ==
    /\ pc = "ready"
    /\ lastOp.op = "GetWorldMatrix"
    /\ Cardinality(ChainOf(parent, lastOp.node)) = 3
    /\ ~ParentCycleFrom(parent, lastOp.node)

\* C29: when the hierarchy is changed by AddChild and RemoveChild calls
\* that return only, every node with a parent is in the child list of that
\* parent, also after it was added to several parents or twice to one
C29_ParentedIsRegistered ==
    (pc = "ready" /\ ~direct)
        => \A n \in Nodes :
              parent[n] # None => n \in Range(children[parent[n]])

\* C29 witness: a node added to two parents has been removed from the list
\* of the first one and is still in the list of its parent, the second
C29_Witness ==
    /\ pc = "ready"
    /\ ~direct
    /\ lastOp.op = "RemoveChild"
    /\ lastOp.arg # None
    /\ lastOp.arg \in Range(lastOp.pre)
    /\ parent[lastOp.arg] \notin {None, lastOp.node}
    /\ lastOp.arg \in Range(children[parent[lastOp.arg]])

\* a node with a parent that was added twice to the list of that parent
C29_AddedTwice ==
    /\ pc = "ready"
    /\ ~direct
    /\ \E n \in Nodes :
          /\ parent[n] # None
          /\ Occurrences(children[parent[n]], n) = 2

\* the product of a local matrix and a direction (v, 0) is the direction d
LocalTimesIs(prod, d) ==
    /\ prod.v.w = 0
    /\ FracVecEq(FracVec(Vec3(prod.v.x, prod.v.y, prod.v.z), prod.den), d)

\* C28: for a unit rotation, position (0, 0, 0) and scale (1, 1, 1),
\* GetLocalMatrix() * (0, 0, -1, 0) is Forward(), GetLocalMatrix() *
\* (1, 0, 0, 0) is Right() and GetLocalMatrix() * (0, 1, 0, 0) is Up()
C28_LocalMatrixRotatesLikeDirections ==
    calc.fn = "GetLocalMatrix"
        => /\ LocalTimesIs(calc.timesForward, calc.Forward)
           /\ LocalTimesIs(calc.timesRight, calc.Right)
           /\ LocalTimesIs(calc.timesUp, calc.Up)

\* C30: the view matrix Mat4::lookAt(eye, target, up) maps the eye to the
\* origin: applied to (eye, 1) it gives (0, 0, 0, 1)
C30_LookAtMapsEyeToOrigin ==
    calc.fn = "lookAt" => calc.out = Vec4(0, 0, 0, 1)

====
